---- MODULE Spec2Model ----
(***************************************************************************)
(* A model of michis_undo_redo (src/src/lib.rs): the undo-redo history     *)
(* UndoRedo<Op>, its Actions and the Operation capability.                 *)
(*                                                                         *)
(* The crate is generic over Op and For.  The model instantiates For with  *)
(* the integers modulo TargetMod and Op with the two edits "inc" (add 1)   *)
(* and "dbl" (multiply by 2); they do not commute, so the order in which   *)
(* an action runs its operations is observable on the target.              *)
(***************************************************************************)
EXTENDS Integers, Sequences, FiniteSets, TLC

\* ------------------------------------------------------------------ bounds

\* The history holds at most MaxActions actions.
MaxActions == 2

\* The history stores at most MaxStored items in all: the operations of every
\* action's apply_ops and revert_ops, and the names that are set.
MaxStored == 4

\* The target is an integer modulo TargetMod.
TargetMod == 3

\* usize is UsizeBits wide.
UsizeBits == 3

UsizeMax == 2 ^ UsizeBits - 1

Target == 0 .. (TargetMod - 1)

Ops == {"inc", "dbl"}

Names == {"a"}

\* Option::None of Action::name.
None == "<none>"

\* ------------------------------------------------------------- Operation

\* <Op as Operation<For>>::apply for the model's Op and For.
Operation_apply(o, item) ==
    CASE o = "inc" -> (item + 1) % TargetMod
      [] o = "dbl" -> (item * 2) % TargetMod

\* ops.iter().for_each(|o| o.apply(apply_to)): front to back.
RECURSIVE for_each(_, _)
for_each(ops, apply_to) ==
    IF ops = << >>
    THEN apply_to
    ELSE for_each(Tail(ops), Operation_apply(Head(ops), apply_to))

\* ---------------------------------------------------------------- Action

\* Action::default().  The field doomed is auxiliary: it is set on the
\* actions at or past the cursor at the moment create_action is called, and
\* on every action at the moment clear_history is called.
Action_default ==
    [name |-> None, apply_ops |-> << >>, revert_ops |-> << >>, doomed |-> FALSE]

get_name(self) == self.name

\* A set_name that only names an action that has no name yet.
set_name_keeps_first(self, new_name) ==
    IF self.name = None THEN [self EXCEPT !.name = new_name] ELSE self

set_name(self, new_name) == [self EXCEPT !.name = new_name]

add_redo_operation(self, operation) ==
    [self EXCEPT !.apply_ops = Append(@, operation)]

\* An add_undo_operation that pushes to the redo list.
add_undo_operation_to_apply_ops(self, operation) ==
    [self EXCEPT !.apply_ops = Append(@, operation)]

add_undo_operation(self, operation) ==
    [self EXCEPT !.revert_ops = Append(@, operation)]

\* An apply that skips the first operation of its list.
apply_skips_first(self, apply_to) ==
    IF self.apply_ops = << >>
    THEN apply_to
    ELSE for_each(Tail(self.apply_ops), apply_to)

apply(self, apply_to) == for_each(self.apply_ops, apply_to)

\* The operations of ops, last to first.
RECURSIVE Reverse(_)
Reverse(ops) ==
    IF ops = << >> THEN << >> ELSE Append(Reverse(Tail(ops)), Head(ops))

\* A revert that iterates its list back to front (.iter().rev()).
revert_back_to_front(self, apply_to) ==
    for_each(Reverse(self.revert_ops), apply_to)

\* A revert that iterates the wrong list.
revert_runs_apply_ops(self, apply_to) == for_each(self.apply_ops, apply_to)

revert(self, apply_to) == for_each(self.revert_ops, apply_to)

\* -------------------------------------------------------------- UndoRedo

\* A default that starts the cursor past the (empty) list.
UndoRedo_default_cursor_one == [actions |-> << >>, tapehead |-> 1]

\* UndoRedo::default().
UndoRedo_default == [actions |-> << >>, tapehead |-> 0]

\* Vec::truncate(len): no effect when len is not less than the length.
\* A truncate that keeps one element more than asked.
truncate_keeps_one_more(v, len) ==
    IF len + 1 < Len(v) THEN SubSeq(v, 1, len + 1) ELSE v

truncate(v, len) == IF len < Len(v) THEN SubSeq(v, 1, len) ELSE v

\* A clear_history that forgets the cursor.
clear_history_keeps_tapehead(self) ==
    [actions |-> << >>, tapehead |-> self.tapehead]

\* A clear_history that only rewinds the cursor.
clear_history_keeps_actions(self) ==
    [actions |-> self.actions, tapehead |-> 0]

clear_history(self) == [actions |-> << >>, tapehead |-> 0]

\* A create_action that truncates one past the cursor.
create_action_off_by_one(self) ==
    [self EXCEPT !.actions =
        Append(truncate(self.actions, self.tapehead + 1), Action_default)]

\* A create_action that never truncates.
create_action_keeps_future(self) ==
    [self EXCEPT !.actions = Append(self.actions, Action_default)]

\* The returned handle is the last element of the result's actions.
create_action(self) ==
    LET kept == IF Len(self.actions) > self.tapehead
                THEN truncate(self.actions, self.tapehead)
                ELSE self.actions
    IN  [self EXCEPT !.actions = Append(kept, Action_default)]

\* A redo that refuses an action with nothing to apply.
redo_rejects_empty(self, apply_to) ==
    IF /\ self.tapehead < Len(self.actions)
       /\ self.actions[self.tapehead + 1].apply_ops # << >>
    THEN [self     |-> [self EXCEPT !.tapehead = @ + 1],
          apply_to |-> apply(self.actions[self.tapehead + 1], apply_to),
          result   |-> "Ok"]
    ELSE [self |-> self, apply_to |-> apply_to, result |-> "NothingToDo"]

\* A redo that runs the undo list.
redo_runs_revert_ops(self, apply_to) ==
    IF self.tapehead < Len(self.actions)
    THEN [self     |-> [self EXCEPT !.tapehead = @ + 1],
          apply_to |-> revert(self.actions[self.tapehead + 1], apply_to),
          result   |-> "Ok"]
    ELSE [self |-> self, apply_to |-> apply_to, result |-> "NothingToDo"]

\* A redo that moves the cursor before looking the action up.
redo_advances_at_end(self, apply_to) ==
    IF self.tapehead < Len(self.actions)
    THEN [self     |-> [self EXCEPT !.tapehead = @ + 1],
          apply_to |-> apply(self.actions[self.tapehead + 1], apply_to),
          result   |-> "Ok"]
    ELSE [self     |-> [self EXCEPT !.tapehead = @ + 1],
          apply_to |-> apply_to,
          result   |-> "NothingToDo"]

\* A redo that applies the action and leaves the cursor where it was.
redo_forgets_advance(self, apply_to) ==
    IF self.tapehead < Len(self.actions)
    THEN [self     |-> self,
          apply_to |-> apply(self.actions[self.tapehead + 1], apply_to),
          result   |-> "Ok"]
    ELSE [self |-> self, apply_to |-> apply_to, result |-> "NothingToDo"]

\* self.actions.get(self.tapehead) is Some exactly when tapehead < len; the
\* Vec is 0-based, the sequence 1-based.
\* A redo that looks up the action one past the cursor.
redo_looks_ahead(self, apply_to) ==
    IF self.tapehead + 1 < Len(self.actions)
    THEN [self     |-> [self EXCEPT !.tapehead = @ + 1],
          apply_to |-> apply(self.actions[self.tapehead + 2], apply_to),
          result   |-> "Ok"]
    ELSE [self |-> self, apply_to |-> apply_to, result |-> "NothingToDo"]

\* A redo that advances the cursor by two.
redo_advances_twice(self, apply_to) ==
    IF self.tapehead < Len(self.actions)
    THEN [self     |-> [self EXCEPT !.tapehead = @ + 2],
          apply_to |-> apply(self.actions[self.tapehead + 1], apply_to),
          result   |-> "Ok"]
    ELSE [self |-> self, apply_to |-> apply_to, result |-> "NothingToDo"]

redo(self, apply_to) ==
    IF self.tapehead < Len(self.actions)
    THEN IF self.tapehead = UsizeMax
         THEN [self |-> self, apply_to |-> apply_to, result |-> "panic"]
         ELSE [self     |-> [self EXCEPT !.tapehead = @ + 1],
               apply_to |-> apply(self.actions[self.tapehead + 1], apply_to),
               result   |-> "Ok"]
    ELSE [self |-> self, apply_to |-> apply_to, result |-> "NothingToDo"]

\* An undo that looks the action up at the cursor it started from.
undo_stale_index(self, apply_to) ==
    IF self.tapehead = 0
    THEN [self |-> self, apply_to |-> apply_to, result |-> "NothingToDo"]
    ELSE LET moved == [self EXCEPT !.tapehead = @ - 1]
         IN  IF self.tapehead < Len(self.actions)
             THEN [self     |-> moved,
                   apply_to |-> revert(self.actions[self.tapehead + 1], apply_to),
                   result   |-> "Ok"]
             ELSE [self |-> moved, apply_to |-> apply_to,
                   result |-> "NothingToDo"]

\* An undo that uses saturating_sub in place of checked_sub.
undo_saturating(self, apply_to) ==
    LET moved == [self EXCEPT !.tapehead = IF @ = 0 THEN 0 ELSE @ - 1]
    IN  IF moved.tapehead < Len(moved.actions)
        THEN [self     |-> moved,
              apply_to |-> revert(moved.actions[moved.tapehead + 1], apply_to),
              result   |-> "Ok"]
        ELSE [self |-> moved, apply_to |-> apply_to, result |-> "NothingToDo"]

undo(self, apply_to) ==
    IF self.tapehead = 0
    THEN [self |-> self, apply_to |-> apply_to, result |-> "NothingToDo"]
    ELSE LET moved == [self EXCEPT !.tapehead = @ - 1]
         IN  IF moved.tapehead < Len(moved.actions)
             THEN [self     |-> moved,
                   apply_to |-> revert(moved.actions[moved.tapehead + 1], apply_to),
                   result   |-> "Ok"]
             ELSE [self |-> moved, apply_to |-> apply_to,
                   result |-> "NothingToDo"]

\* ----------------------------------------------------------------- state

VARIABLES
    actions,    \* UndoRedo::actions
    tapehead,   \* UndoRedo::tapehead
    target,     \* the caller's For, passed to redo and undo
    handle,     \* the &mut Action create_action returned is still borrowed
    op,         \* the last call made
    result,     \* what the last call returned
    before,     \* the state the last call was made in
    run,        \* position in the protocol: rounds of create_action, populate,
                \* redo from the fresh history, then undo calls
    arg,        \* the argument of the last call, for a call on an Action
    named,      \* the name last passed to set_name on the handle
    origin      \* the target the history started from, as long as the calls
                \* were create_action, redo and undo of inverse actions

vars == <<actions, tapehead, target, handle, op, result, before, run, arg,
          named, origin>>

Self == [actions |-> actions, tapehead |-> tapehead]

\* Self with the actions from index `from` on (0-based) marked doomed.
RECURSIVE DoomAll(_)
DoomAll(as) ==
    IF as = << >>
    THEN << >>
    ELSE <<[Head(as) EXCEPT !.doomed = TRUE]>> \o DoomAll(Tail(as))

Doom(from) ==
    [Self EXCEPT !.actions =
        SubSeq(actions, 1, from) \o DoomAll(SubSeq(actions, from + 1, Len(actions)))]

Snapshot ==
    [actions |-> actions, tapehead |-> tapehead, target |-> target,
     handle |-> handle]

\* No argument, for a call on the history.
NoArg == "<no argument>"

\* The premise on the calls so far no longer holds.
NoOrigin == TargetMod   \* a value no target takes

\* The action's revert_ops undo exactly what its apply_ops do, on every
\* target.
Inverse(a) ==
    \A t \in Target : for_each(a.revert_ops, for_each(a.apply_ops, t)) = t

Size(a) ==
    Len(a.apply_ops) + Len(a.revert_ops) + (IF a.name = None THEN 0 ELSE 1)

RECURSIVE Stored(_)
Stored(as) == IF as = << >> THEN 0 ELSE Size(Head(as)) + Stored(Tail(as))

Off == [phase |-> "off", n |-> 0, k |-> 0, orig |-> 0]

Init ==
    /\ actions = UndoRedo_default.actions
    /\ tapehead = UndoRedo_default.tapehead
    /\ target \in Target
    /\ handle = FALSE
    /\ op = "new"
    /\ result = "Ok"
    /\ before = [actions |-> << >>, tapehead |-> 0, target |-> target,
                 handle |-> FALSE]
    /\ arg = NoArg
    /\ named = None
    /\ origin = target
    /\ run = [phase |-> "idle", n |-> 0, k |-> 0, orig |-> target]

ClearHistory ==
    LET s == clear_history(Doom(0))
    IN  /\ actions' = s.actions
        /\ tapehead' = s.tapehead
        /\ handle' = FALSE
        /\ op' = "clear_history"
        /\ result' = "Ok"
        /\ before' = Snapshot
        /\ run' = Off
        /\ arg' = NoArg
        /\ named' = None
        /\ origin' = NoOrigin
        /\ UNCHANGED target

CreateAction ==
    /\ tapehead < MaxActions
    /\ LET s == create_action(Doom(tapehead))
       IN  /\ actions' = s.actions
           /\ tapehead' = s.tapehead
    /\ handle' = TRUE
    /\ op' = "create_action"
    /\ result' = "Ok"
    /\ before' = Snapshot
    /\ run' = IF run.phase = "idle" THEN [run EXCEPT !.phase = "open"] ELSE Off
    /\ arg' = NoArg
    /\ named' = None
    /\ UNCHANGED <<target, origin>>

\* A panic aborts the caller: no state of the history follows it.
Redo ==
    LET r == redo(Self, target)
    IN  /\ r.result # "panic"
        /\ actions' = r.self.actions
        /\ tapehead' = r.self.tapehead
        /\ target' = r.apply_to
        /\ handle' = FALSE
        /\ op' = "redo"
        /\ result' = r.result
        /\ before' = Snapshot
        /\ run' = IF /\ run.phase = "open"
                     /\ r.result = "Ok"
                     /\ actions[Len(actions)].apply_ops # << >>
                     /\ actions[Len(actions)].revert_ops # << >>
                  THEN [run EXCEPT !.phase = "idle", !.n = @ + 1]
                  ELSE Off
        /\ arg' = NoArg
        /\ named' = None
        /\ origin' = IF r.result = "Ok" /\ ~Inverse(actions[tapehead + 1])
                      THEN NoOrigin
                      ELSE origin

Undo ==
    LET u == undo(Self, target)
    IN  /\ actions' = u.self.actions
        /\ tapehead' = u.self.tapehead
        /\ target' = u.apply_to
        /\ handle' = FALSE
        /\ op' = "undo"
        /\ result' = u.result
        /\ before' = Snapshot
        /\ run' = IF run.phase \in {"idle", "undo"} /\ run.k <= run.n
                  THEN [run EXCEPT !.phase = "undo", !.k = @ + 1]
                  ELSE Off
        /\ arg' = NoArg
        /\ named' = None
        /\ origin' = IF u.result = "Ok" /\ ~Inverse(actions[u.self.tapehead + 1])
                      THEN NoOrigin
                      ELSE origin

\* A call on the handle create_action returned: the last action.
Build(call, a, built) ==
    /\ actions' = [actions EXCEPT ![Len(actions)] = built]
    /\ op' = call
    /\ result' = "Ok"
    /\ before' = Snapshot
    /\ arg' = a
    /\ named' = IF call = "set_name" THEN a ELSE named
    /\ UNCHANGED <<tapehead, target, handle, run, origin>>

AddRedoOperation ==
    /\ handle
    /\ Stored(actions) < MaxStored
    /\ \E o \in Ops :
          Build("add_redo_operation", o,
                add_redo_operation(actions[Len(actions)], o))

AddUndoOperation ==
    /\ handle
    /\ Stored(actions) < MaxStored
    /\ \E o \in Ops :
          Build("add_undo_operation", o,
                add_undo_operation(actions[Len(actions)], o))

SetName ==
    /\ handle
    /\ actions[Len(actions)].name # None \/ Stored(actions) < MaxStored
    /\ \E n \in Names :
        Build("set_name", n, set_name(actions[Len(actions)], n))

Next ==
    \/ ClearHistory
    \/ CreateAction
    \/ Redo
    \/ Undo
    \/ AddRedoOperation
    \/ AddUndoOperation
    \/ SetName

Spec == Init /\ [][Next]_vars

\* ------------------------------------------------- calls on one Action

\* The methods of Action called on the handle that create_action returned
\* for the default history: the builder calls, with set_name given any of
\* AnyNames, and apply and revert called on the caller's target directly.

AnyNames == Names \cup {"b"}

InitAction ==
    /\ actions = create_action(UndoRedo_default).actions
    /\ tapehead = create_action(UndoRedo_default).tapehead
    /\ target \in Target
    /\ handle = TRUE
    /\ op = "create_action"
    /\ result = "Ok"
    /\ before = [actions |-> << >>, tapehead |-> 0, target |-> target,
                 handle |-> FALSE]
    /\ run = Off
    /\ arg = NoArg
    /\ named = None
    /\ origin = NoOrigin

SetAnyName ==
    /\ handle
    /\ actions[Len(actions)].name # None \/ Stored(actions) < MaxStored
    /\ \E n \in AnyNames :
          Build("set_name", n, set_name(actions[Len(actions)], n))

ActionApply ==
    /\ handle
    /\ target' = apply(actions[Len(actions)], target)
    /\ op' = "apply"
    /\ result' = "Ok"
    /\ before' = Snapshot
    /\ arg' = NoArg
    /\ UNCHANGED <<actions, tapehead, handle, run, named, origin>>

ActionRevert ==
    /\ handle
    /\ target' = revert(actions[Len(actions)], target)
    /\ op' = "revert"
    /\ result' = "Ok"
    /\ before' = Snapshot
    /\ arg' = NoArg
    /\ UNCHANGED <<actions, tapehead, handle, run, named, origin>>

NextAction ==
    \/ AddRedoOperation
    \/ AddUndoOperation
    \/ SetAnyName
    \/ ActionApply
    \/ ActionRevert

SpecAction == InitAction /\ [][NextAction]_vars

\* ------------------------------------------- redo on any UndoRedo value

\* redo called on any value of the type UndoRedo, whether or not the public
\* methods can produce it: any cursor a usize holds, and any list of actions.
\* A Vec of actions is shorter than usize::MAX (its capacity in bytes is at
\* most isize::MAX), so its length is bounded by MaxActions here too.

SomeActions ==
    {Action_default,
     [Action_default EXCEPT !.apply_ops = <<"inc">>, !.revert_ops = <<"dbl">>]}

RECURSIVE SeqsUpTo(_, _)
SeqsUpTo(S, n) ==
    IF n = 0
    THEN {<< >>}
    ELSE SeqsUpTo(S, n - 1) \cup
         {Append(v, x) : v \in {w \in SeqsUpTo(S, n - 1) : Len(w) = n - 1}, x \in S}

InitAny ==
    /\ actions \in SeqsUpTo(SomeActions, MaxActions)
    /\ tapehead \in 0 .. UsizeMax
    /\ target \in Target
    /\ handle = FALSE
    /\ op = "new"
    /\ result = "Ok"
    /\ before = [actions |-> actions, tapehead |-> tapehead, target |-> target,
                 handle |-> FALSE]
    /\ run = Off
    /\ arg = NoArg
    /\ named = None
    /\ origin = NoOrigin

\* redo, a panic recorded as its result.
RedoAny ==
    LET r == redo(Self, target)
    IN  /\ result # "panic"
        /\ actions' = r.self.actions
        /\ tapehead' = r.self.tapehead
        /\ target' = r.apply_to
        /\ op' = "redo"
        /\ result' = r.result
        /\ before' = Snapshot
        /\ UNCHANGED <<handle, run, arg, named, origin>>

NextAny == RedoAny

SpecAny == InitAny /\ [][NextAny]_vars

\* ---------------------------------------------------------------- claims

\* The action behind the handle: self.actions.last_mut().
Last == actions[Len(actions)]

\* The slice v[from..to) of a 0-based Vec.
Slice(v, from, to) == SubSeq(v, from + 1, to)

\* C1: in every state reachable by clear_history, create_action, redo and
\* undo calls, successful or failing, 0 <= tapehead <= actions.len().
C1_TapeheadInRange == 0 <= tapehead /\ tapehead <= Len(actions)

\* create_action has just truncated a history whose cursor was inside it.
C1_Witness ==
    /\ op = "create_action"
    /\ before.tapehead >= 1
    /\ Len(before.actions) > before.tapehead
    /\ tapehead < Len(actions)

\* C2: redo called with tapehead < actions.len() returns Ok, moves tapehead
\* to the old tapehead + 1, runs the apply_ops of the action at the old
\* tapehead on the target, and leaves the actions as they were.
C2_RedoApplies ==
    (op = "redo" /\ before.tapehead < Len(before.actions)) =>
        /\ result = "Ok"
        /\ tapehead = before.tapehead + 1
        /\ target = for_each(before.actions[before.tapehead + 1].apply_ops,
                             before.target)
        /\ actions = before.actions

\* A redo of the second action that changed the target.
C2_Witness ==
    /\ op = "redo"
    /\ result = "Ok"
    /\ before.tapehead = 1
    /\ target # before.target
    /\ actions[2].apply_ops # actions[2].revert_ops
    /\ actions[2].apply_ops # actions[1].apply_ops

\* C3: undo called with tapehead > 0 returns Ok, moves tapehead to the old
\* tapehead - 1, runs the revert_ops of the action at the new tapehead on
\* the target, and leaves the actions as they were.
C3_UndoReverts ==
    (op = "undo" /\ before.tapehead > 0) =>
        /\ result = "Ok"
        /\ tapehead = before.tapehead - 1
        /\ target = for_each(before.actions[tapehead + 1].revert_ops,
                             before.target)
        /\ actions = before.actions

\* An undo of the second action that changed the target.
C3_Witness ==
    /\ op = "undo"
    /\ result = "Ok"
    /\ tapehead = 1
    /\ target # before.target
    /\ actions[2].revert_ops # actions[2].apply_ops
    /\ actions[2].revert_ops # actions[1].revert_ops

\* C4: redo called with tapehead = actions.len() returns NothingToDo and
\* leaves tapehead, the actions and the target as they were.
C4_RedoAtEnd ==
    (op = "redo" /\ before.tapehead = Len(before.actions)) =>
        /\ result = "NothingToDo"
        /\ tapehead = before.tapehead
        /\ actions = before.actions
        /\ target = before.target

\* A redo that failed at the end of a history of two applied actions.
C4_Witness ==
    /\ op = "redo"
    /\ result = "NothingToDo"
    /\ before.tapehead = 2
    /\ Len(before.actions) = 2

\* C5: undo called with tapehead = 0 returns NothingToDo and leaves tapehead
\* at 0 and the actions and the target as they were.
C5_UndoAtStart ==
    (op = "undo" /\ before.tapehead = 0) =>
        /\ result = "NothingToDo"
        /\ tapehead = 0
        /\ actions = before.actions
        /\ target = before.target

\* An undo that failed at the start of a history that holds two actions with
\* undo operations.
C5_Witness ==
    /\ op = "undo"
    /\ result = "NothingToDo"
    /\ before.tapehead = 0
    /\ Len(before.actions) = 2
    /\ before.actions[1].revert_ops # << >>

\* C6: create_action called with the cursor at i leaves the cursor at i and
\* the target untouched, keeps actions[0..i), discards every action at an
\* index >= i and appends one new empty action, which is then at index i,
\* the last one.
C6_CreateActionFrame ==
    (op = "create_action") =>
        LET i == before.tapehead
        IN  /\ tapehead = i
            /\ target = before.target
            /\ Len(actions) = i + 1
            /\ Slice(actions, 0, i) = Slice(before.actions, 0, i)
            /\ actions[i + 1] = Action_default
            /\ get_name(actions[i + 1]) = None
            /\ actions[i + 1].apply_ops = << >>
            /\ actions[i + 1].revert_ops = << >>

\* create_action has kept a populated first action and discarded a populated
\* second one.
C6_Witness ==
    /\ op = "create_action"
    /\ before.tapehead = 1
    /\ Len(before.actions) = 2
    /\ before.actions[1].apply_ops # << >>
    /\ before.actions[2].apply_ops # << >>
    /\ before.actions[2].name # None

\* C7: the actions at or past the cursor when create_action is called are
\* gone for good.  No action of the history is a doomed one; what a
\* successful redo or undo ran on the target is a list of an action of the
\* history; and from create_action until the next call on the history, the
\* new action is the only one at or past the cursor: the first redo succeeds
\* and runs exactly its apply_ops, and the redo after that returns
\* NothingToDo and changes nothing.
C7_DiscardedUnreachable ==
    /\ \A j \in 1 .. Len(actions) : ~actions[j].doomed
    /\ (op = "redo" /\ result = "Ok") =>
          /\ tapehead \in 1 .. Len(actions)
          /\ target = for_each(actions[tapehead].apply_ops, before.target)
    /\ (op = "undo" /\ result = "Ok") =>
          /\ tapehead \in 0 .. (Len(actions) - 1)
          /\ target = for_each(actions[tapehead + 1].revert_ops, before.target)
    /\ handle =>
          /\ Len(actions) = tapehead + 1
          /\ LET first  == redo(Self, target)
                 second == redo(first.self, first.apply_to)
             IN  /\ first.result = "Ok"
                 /\ first.self.tapehead = Len(actions)
                 /\ first.self.actions = actions
                 /\ first.apply_to = for_each(Last.apply_ops, target)
                 /\ second.result = "NothingToDo"
                 /\ second.self = first.self
                 /\ second.apply_to = first.apply_to

\* create_action was called on a history of two actions with the cursor at
\* 0.  The second action can only have been created with the cursor past
\* the first, so both were committed (N = 2) and both undone (K = 2); both
\* had operations to redo.
C7_Witness ==
    /\ op = "create_action"
    /\ before.tapehead = 0
    /\ Len(before.actions) = 2
    /\ before.actions[1].apply_ops # << >>
    /\ before.actions[2].apply_ops # << >>
    /\ Len(actions) = 1

\* C8: after a successful redo of an action whose revert_ops undo what its
\* apply_ops do, an undo called next succeeds and puts the target, the
\* cursor and the actions back to what they were before the redo.
C8_RedoUndoRoundTrip ==
    (op = "redo" /\ result = "Ok" /\ Inverse(before.actions[before.tapehead + 1])) =>
        LET u == undo(Self, target)
        IN  /\ u.result = "Ok"
            /\ u.apply_to = before.target
            /\ u.self.tapehead = before.tapehead
            /\ u.self.actions = before.actions

\* The undo right after the successful redo of a round (run.k = 1 counts the
\* first undo after run.n rounds that each ended in a successful redo), of
\* an action whose two lists differ and are inverse, on a target it changes.
C8_Witness ==
    /\ run.phase = "undo"
    /\ run.k = 1
    /\ run.n >= 1
    /\ op = "undo"
    /\ result = "Ok"
    /\ Inverse(actions[tapehead + 1])
    /\ actions[tapehead + 1].apply_ops # actions[tapehead + 1].revert_ops
    /\ target # before.target

AllInverse == \A j \in 1 .. Len(actions) : Inverse(actions[j])

\* C9 as written: after N rounds of create_action, populate with non-empty
\* lists, redo from the fresh history, each of N undo calls succeeds, the
\* N-th leaves the target at its original value, and one more undo returns
\* NothingToDo.
C9_AsWritten ==
    (run.phase = "undo") =>
        /\ (run.k <= run.n) => result = "Ok"
        /\ (run.k = run.n) => target = run.orig
        /\ (run.k = run.n + 1) => result = "NothingToDo"

\* C9, amended: the same, the target being back at its original value
\* provided every action's revert_ops undo what its apply_ops do.
C9_UndoAllRounds ==
    (run.phase = "undo") =>
        /\ (run.k <= run.n) => (result = "Ok" /\ tapehead = run.n - run.k)
        /\ (run.k = run.n /\ AllInverse) => target = run.orig
        /\ (run.k = run.n + 1) =>
              /\ result = "NothingToDo"
              /\ tapehead = 0
              /\ target = before.target

\* Two rounds, then the second of two undo calls, which changed the target.
C9_Witness ==
    /\ run.phase = "undo"
    /\ run.n = 2
    /\ run.k = 2
    /\ Len(actions) = 2
    /\ AllInverse
    /\ \A j \in 1 .. 2 : actions[j].apply_ops # << >> /\ actions[j].revert_ops # << >>
    /\ target = run.orig
    /\ target # before.target

\* C10: clear_history, in any state, leaves no actions and tapehead = 0 and
\* does not touch the target; the history is then the default one, and an
\* undo or a redo called next returns NothingToDo and changes nothing.
C10_ClearHistory ==
    (op = "clear_history") =>
        /\ result = "Ok"
        /\ actions = << >>
        /\ tapehead = 0
        /\ target = before.target
        /\ Self = UndoRedo_default
        /\ undo(Self, target) =
              [self |-> Self, apply_to |-> target, result |-> "NothingToDo"]
        /\ redo(Self, target) =
              [self |-> Self, apply_to |-> target, result |-> "NothingToDo"]

\* clear_history was called with the cursor inside a history of two actions.
C10_Witness ==
    /\ op = "clear_history"
    /\ before.tapehead = 1
    /\ Len(before.actions) = 2
    /\ before.actions[1].apply_ops # << >>

\* The record a call returns when it fails and changes nothing.
Nothing(self, apply_to) ==
    [self |-> self, apply_to |-> apply_to, result |-> "NothingToDo"]

\* C11: the default history has no actions and tapehead 0; undo and redo on
\* it return NothingToDo and change neither the history nor the target.
C11_FreshNothingToDo ==
    /\ (op = "new") =>
          /\ actions = << >>
          /\ tapehead = 0
          /\ undo(Self, target) = Nothing(Self, target)
          /\ redo(Self, target) = Nothing(Self, target)
    /\ (op \in {"undo", "redo"} /\ before.actions = << >> /\ before.tapehead = 0) =>
          /\ result = "NothingToDo"
          /\ actions = << >>
          /\ tapehead = 0
          /\ target = before.target

\* undo was the first call ever made on the history (run counts it as the
\* first undo after no round), and it failed.
C11_Witness ==
    /\ op = "undo"
    /\ result = "NothingToDo"
    /\ run.phase = "undo"
    /\ run.n = 0
    /\ run.k = 1
    /\ actions = << >>

\* The target after the first n operations of ops ran on t in index order,
\* once each.
RECURSIVE RunTo(_, _, _)
RunTo(ops, t, n) ==
    IF n = 0 THEN t ELSE Operation_apply(ops[n], RunTo(ops, t, n - 1))

\* C12: Action::apply runs every operation of apply_ops once, in the order
\* they were added, and Action::revert runs every operation of revert_ops
\* once, also in the order they were added; neither changes the action.
C12_ApplyRevertInOrder ==
    /\ (op = "apply") =>
          /\ target = RunTo(Last.apply_ops, before.target, Len(Last.apply_ops))
          /\ actions = before.actions
    /\ (op = "revert") =>
          /\ target = RunTo(Last.revert_ops, before.target, Len(Last.revert_ops))
          /\ actions = before.actions

\* revert ran inc and then dbl on 0: front to back gives 2, back to front
\* would give 1.
C12_Witness ==
    /\ op = "revert"
    /\ Last.revert_ops = <<"inc", "dbl">>
    /\ Last.apply_ops # Last.revert_ops
    /\ before.target = 0
    /\ target = 2

\* The action has no operations in either list.
Empty(a) == a.apply_ops = << >> /\ a.revert_ops = << >>

\* C13: redo over an action with empty lists returns Ok, advances tapehead
\* by 1 and leaves the target unchanged; undo over it returns Ok, retreats
\* tapehead by 1 and leaves the target unchanged.
C13_EmptyActionNoOp ==
    /\ (/\ op = "redo"
        /\ before.tapehead < Len(before.actions)
        /\ Empty(before.actions[before.tapehead + 1])) =>
          /\ result = "Ok"
          /\ tapehead = before.tapehead + 1
          /\ target = before.target
          /\ actions = before.actions
    /\ (/\ op = "undo"
        /\ before.tapehead > 0
        /\ before.tapehead <= Len(before.actions)
        /\ Empty(before.actions[before.tapehead])) =>
          /\ result = "Ok"
          /\ tapehead = before.tapehead - 1
          /\ target = before.target
          /\ actions = before.actions

\* An undo over an empty second action, which had been redone after a first
\* action that has operations.
C13_Witness ==
    /\ op = "undo"
    /\ result = "Ok"
    /\ before.tapehead = 2
    /\ tapehead = 1
    /\ Empty(actions[2])
    /\ ~Empty(actions[1])

\* C14: get_name returns the name last passed to set_name on the action,
\* whatever add_redo_operation and add_undo_operation calls came in between,
\* and no name for an action set_name was never called on, the action
\* create_action has just returned included.
C14_GetNameSetName ==
    /\ handle => get_name(Last) = named
    /\ (op = "create_action") => get_name(Last) = None
    /\ (op = "set_name") => get_name(Last) = arg

\* set_name("b") was called on an action named "a" that has operations.
C14_Witness ==
    /\ op = "set_name"
    /\ arg = "b"
    /\ get_name(before.actions[Len(before.actions)]) = "a"
    /\ get_name(Last) = "b"
    /\ Last.apply_ops # << >>
    /\ Last.revert_ops # << >>

\* The action behind the handle as it was when the last call was made.
LastBefore == before.actions[Len(before.actions)]

\* C20: add_redo_operation(op) appends op at the end of apply_ops and leaves
\* revert_ops and the name alone; add_undo_operation(op) appends op at the
\* end of revert_ops and leaves apply_ops and the name alone; set_name
\* changes only the name; so no builder call removes or reorders an
\* operation, and none touches another action.
C20_BuilderAppendOnly ==
    (op \in {"add_redo_operation", "add_undo_operation", "set_name"}) =>
        /\ Len(actions) = Len(before.actions)
        /\ Slice(actions, 0, Len(actions) - 1) =
              Slice(before.actions, 0, Len(actions) - 1)
        /\ (op = "add_redo_operation") =>
              Last = [LastBefore EXCEPT !.apply_ops = LastBefore.apply_ops \o <<arg>>]
        /\ (op = "add_undo_operation") =>
              Last = [LastBefore EXCEPT !.revert_ops = LastBefore.revert_ops \o <<arg>>]
        /\ (op = "set_name") =>
              Last = [LastBefore EXCEPT !.name = arg]

\* add_undo_operation(dbl) was called on a named action whose lists held
\* inc and inc.
C20_Witness ==
    /\ op = "add_undo_operation"
    /\ arg = "dbl"
    /\ LastBefore.name # None
    /\ LastBefore.apply_ops = <<"inc">>
    /\ LastBefore.revert_ops = <<"inc">>
    /\ Last.revert_ops = <<"inc", "dbl">>

RECURSIVE ApplyAll(_, _)
ApplyAll(as, t) ==
    IF as = << >>
    THEN t
    ELSE ApplyAll(Tail(as), for_each(Head(as).apply_ops, t))

\* C16: as long as the calls were create_action (populated before the next
\* call on the history), redo and undo, no clear_history, every action done
\* or undone having revert_ops that invert its apply_ops, the target is the
\* initial target with the apply_ops of actions[0..tapehead) applied in
\* index order: the actions from tapehead on have no part in it.
C16_CursorPartitions ==
    (origin # NoOrigin) =>
        target = ApplyAll(Slice(actions, 0, tapehead), origin)

\* An undo back to the middle of two actions, each of which changes the
\* target it is applied to.
C16_Witness ==
    /\ origin # NoOrigin
    /\ op = "undo"
    /\ result = "Ok"
    /\ tapehead = 1
    /\ Len(actions) = 2
    /\ target # origin
    /\ target # before.target

\* The results of n consecutive undo calls made from self on apply_to.
RECURSIVE UndoResults(_, _, _)
UndoResults(self, apply_to, n) ==
    IF n = 0
    THEN << >>
    ELSE LET u == undo(self, apply_to)
         IN  <<u.result>> \o UndoResults(u.self, u.apply_to, n - 1)

\* The results of n consecutive redo calls made from self on apply_to.
RECURSIVE RedoResults(_, _, _)
RedoResults(self, apply_to, n) ==
    IF n = 0
    THEN << >>
    ELSE LET r == redo(self, apply_to)
         IN  <<r.result>> \o RedoResults(r.self, r.apply_to, n - 1)

\* i times Ok, then NothingToDo.
OkThenNothing(i) ==
    [j \in 1 .. (i + 1) |-> IF j <= i THEN "Ok" ELSE "NothingToDo"]

\* C17: in every reachable state, with cursor i = tapehead and length
\* n = Len(actions), consecutive undo calls return Ok exactly i times and then
\* NothingToDo, and consecutive redo calls return Ok exactly n - i times and
\* then NothingToDo; a redo that was made returned Ok exactly when i < n, an
\* undo exactly when i > 0.
C17_RunsOfUndoRedo ==
    /\ UndoResults(Self, target, tapehead + 1) = OkThenNothing(tapehead)
    /\ RedoResults(Self, target, Len(actions) - tapehead + 1)
           = OkThenNothing(Len(actions) - tapehead)
    /\ (op = "undo") => (result = "Ok" <=> before.tapehead > 0)
    /\ (op = "redo") =>
           (result = "Ok" <=> before.tapehead < Len(before.actions))

\* After a successful undo, one action on each side of the cursor.
C17_Witness ==
    /\ op = "undo"
    /\ result = "Ok"
    /\ before.tapehead = 2
    /\ tapehead = 1
    /\ Len(actions) = 2
    /\ UndoResults(Self, target, 2) = <<"Ok", "NothingToDo">>
    /\ RedoResults(Self, target, 2) = <<"Ok", "NothingToDo">>

\* C18: a create_action called while the action of the previous create_action
\* has not been redone (the handle was still live, only calls on it in
\* between) drops that action: none of the actions that were at or after the
\* cursor is left, the actions before the cursor are kept, the length is
\* tapehead + 1, the cursor has not moved, and the last action is empty.
C18_UncommittedDiscarded ==
    (op = "create_action" /\ before.handle) =>
        /\ before.tapehead = Len(before.actions) - 1
        /\ tapehead = before.tapehead
        /\ Len(actions) = tapehead + 1
        /\ Last = Action_default
        /\ Slice(actions, 0, tapehead) = Slice(before.actions, 0, tapehead)
        /\ \A j \in 1 .. Len(actions) : ~actions[j].doomed

\* The second create_action, the first action having been populated, after
\* one action that was redone.
C18_Witness ==
    /\ op = "create_action"
    /\ before.handle
    /\ before.tapehead = 1
    /\ LastBefore.apply_ops # << >>
    /\ LastBefore.name # None
    /\ Last = Action_default

\* C19: in every reachable state with tapehead > 0 there is an action at
\* index tapehead - 1, so an undo that returns NothingToDo has not moved
\* tapehead.
C19_UndoNeverDefensive ==
    /\ (tapehead > 0) => (tapehead - 1 < Len(actions))
    /\ (op = "undo" /\ result = "NothingToDo") =>
           /\ before.tapehead = 0
           /\ tapehead = before.tapehead

\* An undo that failed although the history holds actions.
C19_Witness ==
    /\ op = "undo"
    /\ result = "NothingToDo"
    /\ Len(actions) = 2
    /\ tapehead = 0

====
